---- MODULE Spec2Model ----
\* Model of src/src/DataBase/DB_generator.py: the per-URL capture engine
\* (render_url), its helpers (slugify, extract_alt_from_svg, the largest-svg
\* scan) and the resumable batch driver (run_pipeline) with its results.json.
\*
\* Strings are sequences of characters (" " is whitespace); the empty string
\* is << >>.  A record's `error` is the sequence of the message parts the code
\* concatenates.
EXTENDS Integers, Sequences, FiniteSets, TLC

\* ------------------------------------------------------------------ bounds
\* rows of the input CSV
MaxRows == 2
\* invocations of run_pipeline on the same output directory
MaxRuns == 2
\* svg elements of a page rendered during a batch
MaxPageSvgs == 1
\* svg elements of a page handed to the scan alone
MaxSvgs == 3
\* width and height of a bounding box
MaxDim == 2
\* length of an attribute value or a child's text
MaxText == 2

\* --------------------------------------------------------------- constants
\* slug[:80]
SlugMax == 80

\* ----------------------------------------------------------------- strings
Empty == << >>

IsSpace(c) == c = " "

RECURSIVE LStrip(_)
LStrip(s) == IF s # << >> /\ IsSpace(Head(s)) THEN LStrip(Tail(s)) ELSE s

RECURSIVE RStrip(_)
RStrip(s) ==
    IF s # << >> /\ IsSpace(s[Len(s)]) THEN RStrip(SubSeq(s, 1, Len(s) - 1)) ELSE s

\* str.strip()
Strip(s) == RStrip(LStrip(s))

RECURSIVE SeqsUpTo(_, _)
SeqsUpTo(S, n) ==
    IF n = 0 THEN {<< >>}
    ELSE LET shorter == SeqsUpTo(S, n - 1)
         IN  shorter \cup {Append(s, x) : s \in {t \in shorter : Len(t) = n - 1}, x \in S}

\* ----------------------------------------------------------------- slugify
Schemes == {"http://", "https://"}
WordChars == {"a", "b", "c", "x", "_", "-"}

SlugChar(c) == IF c \in WordChars THEN c ELSE "_"

RECURSIVE DropSchemes(_)
DropSchemes(u) ==
    IF u = << >> THEN << >>
    ELSE IF Head(u) \in Schemes THEN DropSchemes(Tail(u))
    ELSE <<Head(u)>> \o DropSchemes(Tail(u))

slugify(url) ==
    LET bare == DropSchemes(url)
        safe == [i \in 1..Len(bare) |-> SlugChar(bare[i])]
    IN  SubSeq(safe, 1, IF Len(safe) < SlugMax THEN Len(safe) ELSE SlugMax)

\* ----------------------------------------------------------------- records
NoPath == << >>
HtmlPath(url) == <<"html", slugify(url), ".html">>
ChartPath(url) == <<"images", slugify(url), "_chart.png">>
FullPageNamedChart(url) == <<"images", slugify(url), "_chart.png">>
FullPagePath(url) == <<"images", slugify(url), "_fullpage.png">>

\* result = {...} at the top of render_url
NewResult(url) ==
    [url |-> url, status |-> "ok", error |-> << >>, has_svg |-> FALSE,
     has_alt |-> FALSE, alt_text |-> Empty, image_path |-> NoPath,
     html_path |-> NoPath]

SyntheticErrorWithHtml(url, e) ==
    [NewResult(url) EXCEPT !.status = "error", !.error = <<e>>,
                           !.html_path = HtmlPath(url)]

\* the record run_pipeline builds in its except branch; e is str(e)
SyntheticError(url, e) ==
    [url |-> url, status |-> "error", error |-> <<e>>, has_svg |-> FALSE,
     has_alt |-> FALSE, alt_text |-> Empty, image_path |-> NoPath,
     html_path |-> NoPath]

UrlsOf(recs) == {recs[i].url : i \in 1..Len(recs)}

UniqueUrls(recs) ==
    \A i, j \in 1..Len(recs) : recs[i].url = recs[j].url => i = j

\* ------------------------------------------------------------- svg elements
\* An svg element as the browser answers for it: bounding_box() gives None
\* ("none"), a box ("box", width x height) or raises ("raise"); aria and alt are
\* attributes, title and desc are child elements with their text.
Texts == SeqsUpTo({" ", "x"}, MaxText)
Absent == [state |-> "absent", text |-> Empty]
Sources == {Absent} \cup {[state |-> "present", text |-> t] : t \in Texts}

NoLabels == [aria |-> Absent, title |-> Absent, desc |-> Absent, alt |-> Absent]

Element(kind, w, h, labels) ==
    [kind |-> kind, width |-> w, height |-> h, aria |-> labels.aria,
     title |-> labels.title, desc |-> labels.desc, alt |-> labels.alt]

\* svg_locator.get_attribute(name) or ""
AttrOrEmpty(src) == IF src.state = "present" THEN src.text ELSE Empty

\* a step of the chain raises
Raises(src) == src.state = "raise"

extract_alt_swapped(el) ==
    IF Raises(el.aria) THEN Empty
    ELSE IF Strip(AttrOrEmpty(el.aria)) # Empty THEN Strip(AttrOrEmpty(el.aria))
    ELSE IF Raises(el.desc) THEN Empty
    ELSE IF el.desc.state = "present" /\ Strip(el.desc.text) # Empty
         THEN Strip(el.desc.text)
    ELSE IF Raises(el.title) THEN Empty
    ELSE IF el.title.state = "present" /\ Strip(el.title.text) # Empty
         THEN Strip(el.title.text)
    ELSE IF Raises(el.alt) THEN Empty
    ELSE Strip(AttrOrEmpty(el.alt))

\* extract_alt_from_svg: one try block around the four steps, so a raising
\* step ends the chain with "".
extract_alt_from_svg(el) ==
    IF Raises(el.aria) THEN Empty
    ELSE IF Strip(AttrOrEmpty(el.aria)) # Empty THEN Strip(AttrOrEmpty(el.aria))
    ELSE IF Raises(el.title) THEN Empty
    ELSE IF el.title.state = "present" /\ Strip(el.title.text) # Empty
         THEN Strip(el.title.text)
    ELSE IF Raises(el.desc) THEN Empty
    ELSE IF el.desc.state = "present" /\ Strip(el.desc.text) # Empty
         THEN Strip(el.desc.text)
    ELSE IF Raises(el.alt) THEN Empty
    ELSE Strip(AttrOrEmpty(el.alt))

\* ------------------------------------------------------------ largest svg
LargerOrEqual(area, largest_area) == area >= largest_area

\* if area > largest_area
Larger(area, largest_area) == area > largest_area

\* The for loop over range(count), from element i on, with the loop's
\* `largest` (an index, 0 for None) and `largest_area`.  A raising
\* bounding_box() leaves the loop with the exception.
RECURSIVE ScanFrom(_, _, _, _)
ScanFrom(els, i, largest, largest_area) ==
    IF i > Len(els) THEN [raised |-> FALSE, largest |-> largest]
    ELSE IF els[i].kind = "raise" THEN [raised |-> TRUE, largest |-> largest]
    ELSE IF els[i].kind = "box" /\ Larger(els[i].width * els[i].height, largest_area)
         THEN ScanFrom(els, i + 1, i, els[i].width * els[i].height)
    ELSE ScanFrom(els, i + 1, largest, largest_area)

\* largest = None; largest_area = 0; for i in range(count): ...
LargestSvg(els) == ScanFrom(els, 1, 0, 0)

\* ------------------------------------------------------------------- state
VARIABLES
    rows,            \* the url column of the input CSV, one cell per row
    disk,            \* results.json: [exists, valid, recs]
    pc,              \* where the process is
    run,             \* invocations of run_pipeline so far
    all_results,     \* run_pipeline's in-memory ledger
    processed_urls,  \* run_pipeline's set of recorded urls
    idx,             \* position of the for loop in rows
    url,             \* render_url's argument
    result,          \* render_url's result dict / run_pipeline's result
    trace,           \* browser calls of the current render_url call, with their outcome
    browser,         \* the call's browser: "none", "open" or "closed"
    leaked,          \* browsers of earlier calls that are still open
    svgs,            \* the svg elements of the loaded page
    largest,         \* index in svgs of the element the scan chose, 0 for None
    rendered,        \* urls render_url was called with in this run
    ledger0,         \* results.json as it was when this run started
    prevDone,        \* the run before this one completed
    hist             \* [fresh, between, interrupted]: how the runs were cut

vars == <<rows, disk, pc, run, all_results, processed_urls, idx, url, result,
          trace, browser, leaked, svgs, largest, rendered, ledger0, prevDone, hist>>

NoFile == [exists |-> FALSE, valid |-> FALSE, recs |-> << >>]
File(recs) == [exists |-> TRUE, valid |-> TRUE, recs |-> recs]

\* cells of the url column
Cells == {<<" ">>, <<"a">>, <<"b", " ">>}

\* a record of an earlier batch
GotoFailed(u) == [NewResult(u) EXCEPT !.status = "error", !.error = <<"goto failed">>]

StartDisks ==
    {NoFile, File(<<GotoFailed(<<"b">>)>>)}

\* pages a batch meets: up to MaxPageSvgs svg elements
DescOnly == [NoLabels EXCEPT !.desc = [state |-> "present", text |-> <<" ", "x">>]]
PageElements ==
    {Element("none", 0, 0, NoLabels), Element("raise", 0, 0, NoLabels),
     Element("box", 1, 1, DescOnly)}
Pages == SeqsUpTo(PageElements, MaxPageSvgs)

Idle == {"idle", "done", "loadfail", "uncaught"}

NoHist == [fresh |-> TRUE, between |-> TRUE, interrupted |-> FALSE]

Init ==
    /\ rows \in SeqsUpTo(Cells, MaxRows)
    /\ disk \in StartDisks
    /\ pc = "idle"
    /\ run = 0
    /\ all_results = << >>
    /\ processed_urls = {}
    /\ idx = 0
    /\ url = Empty
    /\ result = NewResult(Empty)
    /\ trace = << >>
    /\ browser = "none"
    /\ leaked = 0
    /\ svgs = << >>
    /\ largest = 0
    /\ rendered = << >>
    /\ ledger0 = NoFile
    /\ prevDone = FALSE
    /\ hist = [NoHist EXCEPT !.fresh = ~disk.exists]

\* ------------------------------------------------------------ run_pipeline
ProcessedNone(recs) == {}
ProcessedOkOnly(recs) == {recs[i].url : i \in {j \in 1..Len(recs) : recs[j].status = "ok"}}

\* processed_urls = {r["url"] for r in all_results}
ProcessedUrls(recs) == UrlsOf(recs)

\* run_pipeline up to the for loop: the empty CSV returns, json.load of a
\* file that is not complete JSON raises, otherwise the ledger is loaded.
StartRun ==
    /\ pc \in Idle
    /\ run < MaxRuns
    /\ run' = run + 1
    /\ ledger0' = disk
    /\ prevDone' = (pc = "done")
    /\ rendered' = << >>
    /\ IF rows = << >>
       THEN /\ pc' = "done"
            /\ all_results' = << >>
            /\ processed_urls' = {}
       ELSE IF disk.exists /\ ~disk.valid
       THEN /\ pc' = "loadfail"
            /\ all_results' = << >>
            /\ processed_urls' = {}
       ELSE /\ pc' = "loop"
            /\ all_results' = (IF disk.exists THEN disk.recs ELSE << >>)
            /\ processed_urls' = (IF disk.exists THEN ProcessedUrls(disk.recs) ELSE {})
    /\ idx' = 1
    /\ url' = Empty
    /\ result' = NewResult(Empty)
    /\ UNCHANGED <<rows, disk, trace, browser, leaked, svgs, largest, hist>>

\* The head of the for loop: the end of the rows, a blank cell, a recorded
\* url, or the call of render_url (result = {...}, slug, sync_playwright()).
NextRow ==
    /\ pc = "loop"
    /\ IF idx > Len(rows)
       THEN /\ pc' = "done"
            /\ UNCHANGED <<idx, url, result, trace, rendered>>
       ELSE IF Strip(rows[idx]) = Empty \/ Strip(rows[idx]) \in processed_urls
       THEN /\ idx' = idx + 1
            /\ UNCHANGED <<pc, url, result, trace, rendered>>
       ELSE /\ pc' = "launch"
            /\ url' = Strip(rows[idx])
            /\ result' = NewResult(Strip(rows[idx]))
            /\ trace' = << >>
            /\ rendered' = Append(rendered, Strip(rows[idx]))
            /\ UNCHANGED idx
    /\ UNCHANGED <<rows, disk, run, all_results, processed_urls, browser, leaked,
                   svgs, largest, ledger0, prevDone, hist>>

\* -------------------------------------------------------------- render_url
PlaywrightExitLeaky(b) == b

\* The with sync_playwright() block is left: the driver stops, and with it
\* the browser it launched if browser.close() has not run.
PlaywrightExit(b) == IF b = "open" THEN "closed" ELSE b

\* render_url's frame ends (return or exception) through the with block.
Leave(b) ==
    /\ browser' = "none"
    /\ leaked' = leaked + (IF PlaywrightExit(b) = "open" THEN 1 ELSE 0)

CaughtNever(e) == FALSE

\* except Exception as e: around the call of render_url
Caught(e) == e \in {"bounding_box failed", "screenshot failed"}

\* An exception leaves render_url: run_pipeline builds the error record, or
\* the exception leaves run_pipeline too.
Escape(e) ==
    /\ Leave(browser)
    /\ IF Caught(e)
       THEN pc' = "append" /\ result' = SyntheticError(url, e)
       ELSE pc' = "uncaught" /\ UNCHANGED result

Step(call, ok) == [call |-> call, ok |-> ok]

\* browser = p.chromium.launch(headless=True); page = browser.new_page(...)
Launch ==
    /\ pc = "launch"
    /\ browser' = "open"
    /\ pc' = "goto1"
    /\ trace' = Append(trace, Step("launch", TRUE))
    /\ UNCHANGED <<rows, disk, run, all_results, processed_urls, idx, url, result,
                   leaked, svgs, largest, rendered, ledger0, prevDone, hist>>

\* page.goto(url, wait_until="networkidle", timeout=30_000), then the settle delay
GotoNetworkIdle ==
    /\ pc = "goto1"
    /\ \E ok \in BOOLEAN :
        /\ trace' = Append(trace, Step("goto networkidle", ok))
        /\ IF ok THEN pc' = "html" /\ svgs' \in Pages
                 ELSE pc' = "goto2" /\ UNCHANGED svgs
    /\ UNCHANGED <<rows, disk, run, all_results, processed_urls, idx, url, result,
                   browser, leaked, largest, rendered, ledger0, prevDone, hist>>

GotoFailureKeepsOk(r) == [r EXCEPT !.error = <<"goto failed">>]

\* result["status"] = "error"; result["error"] = f"goto failed: {e2}"
GotoFailure(r) == [r EXCEPT !.status = "error", !.error = <<"goto failed">>]

\* page.goto(url, wait_until="domcontentloaded", timeout=20_000); when it
\* fails too: status error, browser.close(), return result
GotoDomContentLoaded ==
    /\ pc = "goto2"
    /\ \E ok \in BOOLEAN :
        /\ trace' = IF ok THEN Append(trace, Step("goto domcontentloaded", ok))
                        ELSE trace \o <<Step("goto domcontentloaded", ok), Step("close", TRUE)>>
        /\ IF ok
           THEN /\ pc' = "html"
                /\ svgs' \in Pages
                /\ UNCHANGED <<result, browser, leaked>>
           ELSE /\ pc' = "append"
                /\ result' = GotoFailure(result)
                /\ Leave("closed")
                /\ UNCHANGED svgs
    /\ UNCHANGED <<rows, disk, run, all_results, processed_urls, idx, url,
                   largest, rendered, ledger0, prevDone, hist>>

HtmlErrorFatal(r) == [r EXCEPT !.status = "error", !.error = Append(@, "html error")]

\* except Exception as e: result["error"] += f" | html error: {e}"
HtmlError(r) == [r EXCEPT !.error = Append(@, "html error")]

\* html = page.content(); html_path.write_text(html)
SaveHtml ==
    /\ pc = "html"
    /\ \E ok \in BOOLEAN :
        /\ trace' = Append(trace, Step("write html", ok))
        /\ result' = IF ok THEN [result EXCEPT !.html_path = HtmlPath(url)]
                           ELSE HtmlError(result)
    /\ pc' = "scan"
    /\ UNCHANGED <<rows, disk, run, all_results, processed_urls, idx, url,
                   browser, leaked, svgs, largest, rendered, ledger0, prevDone, hist>>

bool_always(alt) == TRUE

\* bool(alt): a string is true when it is not empty
bool(alt) == alt # Empty

\* svgs = page.locator("svg"); count; the scan for the largest box; the label
ScanSvgs ==
    /\ pc = "scan"
    /\ trace' = Append(trace, Step("scan svgs", ~LargestSvg(svgs).raised))
    /\ IF Len(svgs) = 0
       THEN /\ pc' = "fullpage_nosvg"
            /\ UNCHANGED <<result, largest, browser, leaked>>
       ELSE IF LargestSvg(svgs).raised
       THEN /\ Escape("bounding_box failed")
            /\ UNCHANGED largest
       ELSE IF LargestSvg(svgs).largest = 0
       THEN /\ pc' = "fullpage_nobox"
            /\ result' = [result EXCEPT !.has_svg = TRUE]
            /\ UNCHANGED <<largest, browser, leaked>>
       ELSE /\ pc' = "chartshot"
            /\ largest' = LargestSvg(svgs).largest
            /\ result' = [result EXCEPT
                   !.has_svg = TRUE,
                   !.alt_text = extract_alt_from_svg(svgs[LargestSvg(svgs).largest]),
                   !.has_alt = bool(extract_alt_from_svg(svgs[LargestSvg(svgs).largest]))]
            /\ UNCHANGED <<browser, leaked>>
    /\ UNCHANGED <<rows, disk, run, all_results, processed_urls, idx, url,
                   svgs, rendered, ledger0, prevDone, hist>>

\* largest.scroll_into_view_if_needed(); largest.screenshot(path=..._chart.png)
ChartShot ==
    /\ pc = "chartshot"
    /\ \E ok \in BOOLEAN :
        /\ trace' = Append(trace, Step("chart screenshot", ok))
        /\ IF ok THEN /\ result' = [result EXCEPT !.image_path = ChartPath(url)]
                      /\ pc' = "close"
                 ELSE /\ result' = [result EXCEPT !.error = Append(@, "svg screenshot error")]
                      /\ pc' = "fullpage_fallback"
    /\ UNCHANGED <<rows, disk, run, all_results, processed_urls, idx, url,
                   browser, leaked, svgs, largest, rendered, ledger0, prevDone, hist>>

\* page.screenshot(path=..._fullpage.png, full_page=True): inside try/except
\* when the page has no svg, bare in the two other branches
FullPageShot ==
    /\ pc \in {"fullpage_nosvg", "fullpage_nobox", "fullpage_fallback"}
    /\ \E ok \in BOOLEAN :
        /\ trace' = Append(trace, Step("fullpage screenshot", ok))
        /\ IF ok
           THEN /\ result' = [result EXCEPT !.image_path = FullPagePath(url)]
                /\ pc' = "close"
                /\ UNCHANGED <<browser, leaked>>
           ELSE IF pc = "fullpage_nosvg"
           THEN /\ result' = [result EXCEPT !.error = Append(@, "fullpage screenshot error")]
                /\ pc' = "close"
                /\ UNCHANGED <<browser, leaked>>
           ELSE Escape("screenshot failed")
    /\ UNCHANGED <<rows, disk, run, all_results, processed_urls, idx, url,
                   svgs, largest, rendered, ledger0, prevDone, hist>>

\* browser.close(); the with block ends; return result
Close ==
    /\ pc = "close"
    /\ Leave("closed")
    /\ pc' = "append"
    /\ trace' = Append(trace, Step("close", TRUE))
    /\ UNCHANGED <<rows, disk, run, all_results, processed_urls, idx, url, result,
                   svgs, largest, rendered, ledger0, prevDone, hist>>

\* ----------------------------------------------------- run_pipeline, again
PrependRecord(recs, r) == <<r>> \o recs

\* all_results.append(result)
AppendRecord(recs, r) == Append(recs, r)

\* all_results.append(result), at the end of the loop body's try/except
AppendResult ==
    /\ pc = "append"
    /\ all_results' = AppendRecord(all_results, result)
    /\ pc' = "open"
    /\ svgs' = << >>
    /\ largest' = 0
    /\ trace' = << >>
    /\ UNCHANGED <<rows, disk, run, processed_urls, idx, url, result,
                   browser, leaked, rendered, ledger0, prevDone, hist>>

\* open(results_path, "w"): the file is truncated
OpenResults ==
    /\ pc = "open"
    /\ disk' = [exists |-> TRUE, valid |-> FALSE, recs |-> << >>]
    /\ pc' = "dump"
    /\ UNCHANGED <<rows, run, all_results, processed_urls, idx, url, result, trace,
                   browser, leaked, svgs, largest, rendered, ledger0, prevDone, hist>>

\* json.dump writes the text piece by piece: part of it reaches the file
Flush ==
    /\ pc = "dump"
    /\ \E k \in 1..(Len(all_results) - 1) :
        /\ k > Len(disk.recs)
        /\ disk' = [exists |-> TRUE, valid |-> FALSE, recs |-> SubSeq(all_results, 1, k)]
    /\ UNCHANGED <<rows, pc, run, all_results, processed_urls, idx, url, result, trace,
                   browser, leaked, svgs, largest, rendered, ledger0, prevDone, hist>>

\* json.dump(all_results, f) ends and the file is closed; next row
Dump ==
    /\ pc = "dump"
    /\ disk' = File(all_results)
    /\ pc' = "loop"
    /\ idx' = idx + 1
    /\ UNCHANGED <<rows, run, all_results, processed_urls, url, result, trace,
                   browser, leaked, svgs, largest, rendered, ledger0, prevDone, hist>>

\* The process is interrupted (KeyboardInterrupt, kill): its memory is gone,
\* the with block of a running render_url is left, the disk stays as it is.
Interrupt ==
    /\ pc \notin Idle
    /\ pc' = "idle"
    /\ hist' = [hist EXCEPT !.between = (@ /\ pc = "loop"), !.interrupted = TRUE]
    /\ Leave(browser)
    /\ all_results' = << >>
    /\ processed_urls' = {}
    /\ idx' = 0
    /\ url' = Empty
    /\ result' = NewResult(Empty)
    /\ trace' = << >>
    /\ svgs' = << >>
    /\ largest' = 0
    /\ rendered' = << >>
    /\ ledger0' = NoFile
    /\ prevDone' = FALSE
    /\ UNCHANGED <<rows, disk, run>>

Next ==
    \/ StartRun
    \/ NextRow
    \/ Launch
    \/ GotoNetworkIdle
    \/ GotoDomContentLoaded
    \/ SaveHtml
    \/ ScanSvgs
    \/ ChartShot
    \/ FullPageShot
    \/ Close
    \/ AppendResult
    \/ OpenResults
    \/ Flush
    \/ Dump
    \/ Interrupt

Spec == Init /\ [][Next]_vars

\* run_pipeline invoked again and again with no invocation interrupted
NextBatch ==
    \/ StartRun
    \/ NextRow
    \/ Launch
    \/ GotoNetworkIdle
    \/ GotoDomContentLoaded
    \/ SaveHtml
    \/ ScanSvgs
    \/ ChartShot
    \/ FullPageShot
    \/ Close
    \/ AppendResult
    \/ OpenResults
    \/ Flush
    \/ Dump

SpecBatch == Init /\ [][NextBatch]_vars

\* ------------------------------------------- the scan and the label alone
\* render_url at its svg scan, on a page whose svg elements are `page`
AtScan(page) ==
    /\ rows = << <<"a">> >>
    /\ disk = NoFile
    /\ pc = "scan"
    /\ run = 1
    /\ all_results = << >>
    /\ processed_urls = {}
    /\ idx = 1
    /\ url = <<"a">>
    /\ result = [NewResult(<<"a">>) EXCEPT !.html_path = HtmlPath(<<"a">>)]
    /\ trace = <<Step("launch", TRUE), Step("goto networkidle", TRUE),
                 Step("write html", TRUE)>>
    /\ browser = "open"
    /\ leaked = 0
    /\ svgs = page
    /\ largest = 0
    /\ rendered = << <<"a">> >>
    /\ ledger0 = NoFile
    /\ prevDone = FALSE
    /\ hist = NoHist

Dims == 0..MaxDim
ScanElements ==
    {Element("none", 0, 0, NoLabels), Element("raise", 0, 0, NoLabels)}
        \cup {Element("box", w, h, NoLabels) : w \in Dims, h \in Dims}

Labels == [aria : Sources, title : Sources, desc : Sources, alt : Sources]

InitLocator == \E page \in SeqsUpTo(ScanElements, MaxSvgs) : AtScan(page)
InitLabel == \E l \in Labels : AtScan(<<Element("box", 1, 1, l)>>)

SpecLocator == InitLocator /\ [][ScanSvgs]_vars
SpecLabel == InitLabel /\ [][ScanSvgs]_vars

\* render_url from its svg scan to its end, on every page of the scan's
\* domain and on every one-svg page whose label lookups answer or raise
Raising == [state |-> "raise", text |-> Empty]
RaisingSources == Sources \cup {Raising}
RaisingLabels ==
    [aria : RaisingSources, title : RaisingSources, desc : RaisingSources,
     alt : RaisingSources]

InitCapture ==
    \/ InitLocator
    \/ \E l \in RaisingLabels : AtScan(<<Element("box", 1, 1, l)>>)

NextCapture ==
    \/ ScanSvgs
    \/ ChartShot
    \/ FullPageShot
    \/ Close

SpecCapture == InitCapture /\ [][NextCapture]_vars

\* render_url from its HTML capture to its end, on the same pages
AtHtml(page) ==
    /\ rows = << <<"a">> >>
    /\ disk = NoFile
    /\ pc = "html"
    /\ run = 1
    /\ all_results = << >>
    /\ processed_urls = {}
    /\ idx = 1
    /\ url = <<"a">>
    /\ result = NewResult(<<"a">>)
    /\ trace = <<Step("launch", TRUE), Step("goto networkidle", TRUE)>>
    /\ browser = "open"
    /\ leaked = 0
    /\ svgs = page
    /\ largest = 0
    /\ rendered = << <<"a">> >>
    /\ ledger0 = NoFile
    /\ prevDone = FALSE
    /\ hist = NoHist

InitHtml ==
    \/ \E page \in SeqsUpTo(ScanElements, MaxSvgs) : AtHtml(page)
    \/ \E l \in RaisingLabels : AtHtml(<<Element("box", 1, 1, l)>>)

NextHtml ==
    \/ SaveHtml
    \/ ScanSvgs
    \/ ChartShot
    \/ FullPageShot
    \/ Close

SpecHtml == InitHtml /\ [][NextHtml]_vars

\* ------------------------------------------------------------------ claims
RowUrl(i) == Strip(rows[i])
RowIndices == 1..Len(rows)
NonBlankRows == \A i \in RowIndices : RowUrl(i) # Empty
DistinctRows == \A i, j \in RowIndices : RowUrl(i) = RowUrl(j) => i = j
RowUrls == [i \in RowIndices |-> RowUrl(i)]
Ledger == IF disk.exists THEN disk.recs ELSE << >>
InCall == {"goto1", "goto2", "html", "scan", "chartshot", "fullpage_nosvg",
           "fullpage_nobox", "fullpage_fallback", "close"}
NavigationOk == \E k \in 1..Len(trace) :
    trace[k].call \in {"goto networkidle", "goto domcontentloaded"} /\ trace[k].ok
\* an exception left render_url: its last call failed outside any try block
Escaped ==
    /\ trace # << >>
    /\ ~trace[Len(trace)].ok
    /\ trace[Len(trace)].call \in {"scan svgs", "fullpage screenshot"}
    /\ ~(trace[Len(trace)].call = "fullpage screenshot" /\ Len(svgs) = 0)

\* C1: when run_pipeline has completed, no two records of the ledger, in
\* memory or in results.json, have the same url.
C1_LedgerUrlsUnique ==
    pc = "done" => UniqueUrls(all_results) /\ UniqueUrls(Ledger)

\* C2 (as claimed): a batch of M non-blank urls started without a ledger,
\* interrupted only between urls and restarted, skips the N recorded urls,
\* renders the urls N+1..M in order and ends with M records, no url twice.
C2_ResumeAnyRows ==
    (pc = "done" /\ hist.fresh /\ hist.between /\ hist.interrupted /\ NonBlankRows)
        => /\ rendered = SubSeq(RowUrls, Len(ledger0.recs) + 1, Len(rows))
           /\ Len(Ledger) = Len(rows)
           /\ UniqueUrls(Ledger)

\* C2 (amended): the same, for input rows whose trimmed urls are pairwise
\* distinct.
C2_ResumeDistinctRows ==
    (pc = "done" /\ hist.fresh /\ hist.between /\ hist.interrupted
        /\ NonBlankRows /\ DistinctRows)
        => /\ rendered = SubSeq(RowUrls, Len(ledger0.recs) + 1, Len(rows))
           /\ Len(Ledger) = Len(rows)
           /\ disk.valid
           /\ UniqueUrls(Ledger)

C2_Resumed ==
    /\ pc = "done" /\ hist.fresh /\ hist.between /\ hist.interrupted
    /\ NonBlankRows /\ DistinctRows
    /\ Len(rows) = 2
    /\ Len(ledger0.recs) = 1
    /\ rendered = <<RowUrl(2)>>
    /\ Len(Ledger) = 2

\* C3: a run that follows a completed run on the same input renders nothing,
\* appends nothing and leaves results.json as it found it.
C3_RerunAppendsNothing ==
    prevDone => /\ pc \in {"loop", "done"}
                /\ rendered = << >>
                /\ disk = ledger0
                /\ (rows # << >> => all_results = ledger0.recs)

C3_RerunCompleted ==
    prevDone /\ pc = "done" /\ Len(Ledger) = 2 /\ Len(rendered) = 0

\* C4: results.json, when it exists, is always a complete loadable ledger that
\* holds every record but the one in flight, and no run fails to load it.
C4_SnapshotAlwaysLoadable ==
    /\ disk.exists => disk.valid
    /\ pc # "loadfail"
    /\ pc \in InCall \cup {"loop", "launch", "done"} => Ledger = all_results \/ rows = << >>

\* C5: an exception of render_url never leaves run_pipeline: it becomes the
\* status=error record of that url, and a completed run has a persisted
\* record for every non-blank input url.
C5_BatchNeverAborts ==
    /\ pc # "uncaught"
    /\ (pc = "append" /\ Escaped) => result.status = "error" /\ result.url = url
    /\ pc = "done" => \A i \in RowIndices :
           RowUrl(i) # Empty => disk.valid /\ RowUrl(i) \in UrlsOf(disk.recs)

C5_ContinuedAfterException ==
    /\ pc = "done"
    /\ Len(Ledger) = 2
    /\ Ledger[1].status = "error"
    /\ Ledger[1].error = <<"bounding_box failed">>
    /\ Ledger[2].url # Ledger[1].url
    /\ rendered = <<Ledger[1].url, Ledger[2].url>>

\* C6: the record render_url's call ends with has status=error only when
\* both navigation attempts failed.
C6_ErrorOnlyWhenNavigationFailed ==
    (pc = "append" /\ NavigationOk) => result.status = "ok"

\* C7: domcontentloaded is tried only after networkidle failed, there are at
\* most two page.goto calls, and a url whose second attempt succeeds ends
\* with a status=ok record.
C7_TwoTierNavigation ==
    /\ \A k \in 1..Len(trace) :
          trace[k].call = "goto domcontentloaded"
              => k = 3 /\ trace[2] = Step("goto networkidle", FALSE)
    /\ Cardinality({k \in 1..Len(trace) :
          trace[k].call \in {"goto networkidle", "goto domcontentloaded"}}) <= 2
    /\ (pc = "append" /\ Len(trace) >= 3 /\ trace[3] = Step("goto domcontentloaded", TRUE))
          => result.status = "ok"

\* C8: a call of render_url launches one browser, which is open while the
\* call runs and closed whenever the call has ended, however it ended; no
\* browser of an earlier call stays open.
C8_SessionClosedOnEveryExit ==
    /\ leaked = 0
    /\ pc \in InCall => browser = "open"
    /\ pc \notin InCall => browser = "none"
    /\ Cardinality({k \in 1..Len(trace) : trace[k].call = "launch"}) <= 1
    /\ pc \in InCall \cup {"append"} =>
           Cardinality({k \in 1..Len(trace) : trace[k].call = "launch"}) = 1

C8_ClosedAfterException ==
    pc = "append" /\ Escaped /\ browser = "none" /\ leaked = 0

Area(i) == IF svgs[i].kind = "box" THEN svgs[i].width * svgs[i].height ELSE 0
Measurable == {i \in 1..Len(svgs) : Area(i) > 0}
NoneRaises == \A i \in 1..Len(svgs) : svgs[i].kind # "raise"
ScanDone == trace # << >> /\ trace[Len(trace)].call = "scan svgs"

\* C9: over a sequence of svg elements that each have no box or a box, the
\* scan chooses an element of the largest area, the first of them in document
\* order, and chooses none exactly when no element has a box of non-zero area.
C9_LargestFirstInDocumentOrder ==
    (ScanDone /\ NoneRaises) =>
        IF Measurable = {}
        THEN largest = 0 /\ pc \in {"fullpage_nosvg", "fullpage_nobox"}
        ELSE /\ pc = "chartshot"
             /\ largest \in Measurable
             /\ \A j \in Measurable :
                    /\ Area(j) <= Area(largest)
                    /\ Area(j) = Area(largest) => largest <= j

C9_TieAfterSmaller ==
    /\ pc = "chartshot"
    /\ Len(svgs) = 3
    /\ 0 < Area(1) /\ Area(1) < Area(2) /\ Area(2) = Area(3)
    /\ svgs[2] # svgs[3]
    /\ largest = 2

\* t is s without its leading and trailing whitespace
IsTrimOf(t, s) ==
    \E i \in 1..(Len(s) + 1) : \E j \in 0..Len(s) :
        /\ t = SubSeq(s, i, j)
        /\ \A k \in 1..Len(s) : (k < i \/ k > j) => s[k] = " "
        /\ t # << >> => t[1] # " " /\ t[Len(t)] # " "

Chain(el) == <<el.aria, el.title, el.desc, el.alt>>
Blank(src) == src.state = "absent" \/ \A k \in 1..Len(src.text) : src.text[k] = " "

\* C10: the label is the trimmed value of the first of aria-label, title,
\* desc, alt that is not blank, and "" when all four are blank; has_alt says
\* whether it is non-empty.
C10_FirstNonBlankSource ==
    pc = "chartshot" =>
        LET chain == Chain(svgs[largest])
            found == {k \in 1..4 : ~Blank(chain[k])}
        IN  /\ result.has_alt = (result.alt_text # Empty)
            /\ IF found = {}
               THEN result.alt_text = Empty
               ELSE \E k \in found :
                       /\ \A m \in found : k <= m
                       /\ IsTrimOf(result.alt_text, chain[k].text)
                       /\ result.alt_text # Empty

C10_DescOnly ==
    /\ pc = "chartshot"
    /\ svgs[largest].aria = Absent
    /\ svgs[largest].title = Absent
    /\ svgs[largest].alt = Absent
    /\ svgs[largest].desc = [state |-> "present", text |-> <<" ", "x">>]
    /\ result.has_alt
    /\ result.alt_text = <<"x">>

\* <images_dir>/<slug>_fullpage.png and <images_dir>/<slug>_chart.png
IsFullPageVariant(p) == p = <<"images", slugify(url), "_fullpage.png">>
IsChartVariant(p) == p = <<"images", slugify(url), "_chart.png">>

FullPageTaken == \E k \in 1..Len(trace) : trace[k] = Step("fullpage screenshot", TRUE)

Count(recs, u) == Cardinality({j \in 1..Len(recs) : recs[j].url = u})
LoadedLedger == ledger0.exists /\ ledger0.valid /\ rows # << >>

\* C12: the recorded set built at load time holds every url of the ledger,
\* also those of status=error records; such a url is never handed to
\* render_url in the run and gets no further record.
C12_FailedUrlsCountAsDone ==
    LoadedLedger =>
        \A k \in 1..Len(ledger0.recs) :
            /\ pc \notin Idle => ledger0.recs[k].url \in processed_urls
            /\ ledger0.recs[k].status = "error" =>
                /\ \A j \in 1..Len(rendered) : rendered[j] # ledger0.recs[k].url
                /\ pc \in InCall \cup {"launch", "append"} => url # ledger0.recs[k].url
                /\ Count(all_results, ledger0.recs[k].url) = Count(ledger0.recs, ledger0.recs[k].url)

C12_FailedUrlSkipped ==
    /\ pc = "done"
    /\ LoadedLedger
    /\ \E k \in 1..Len(ledger0.recs), i \in RowIndices :
        /\ ledger0.recs[k].status = "error"
        /\ RowUrl(i) = ledger0.recs[k].url
    /\ rendered # << >>
    /\ Len(all_results) = Len(ledger0.recs) + Len(rendered)

Called(call) == \E k \in 1..Len(trace) : trace[k].call = call
BothGotosFailed ==
    /\ \E k \in 1..Len(trace) : trace[k] = Step("goto networkidle", FALSE)
    /\ \E k \in 1..Len(trace) : trace[k] = Step("goto domcontentloaded", FALSE)

\* C13: when both navigation attempts fail, render_url returns at once a
\* record with status=error and an error starting with "goto failed"; no
\* HTML is written, no svg is scanned, no screenshot is taken, so the paths
\* are empty and the flags false; the browser is closed and the batch goes
\* on to append the record.
C13_NavigationFailureAborts ==
    BothGotosFailed =>
        /\ pc = "append"
        /\ result.status = "error"
        /\ result.error # << >> /\ result.error[1] = "goto failed"
        /\ ~Called("write html") /\ ~Called("scan svgs")
        /\ ~Called("chart screenshot") /\ ~Called("fullpage screenshot")
        /\ trace[Len(trace)] = Step("close", TRUE)
        /\ result.html_path = Empty /\ result.image_path = Empty
        /\ ~result.has_svg /\ ~result.has_alt
        /\ result.url = url

\* a url rendered after the one whose navigation failed, in the same run
C13_NextUrlAfterGotoFailed ==
    /\ pc = "append"
    /\ ~BothGotosFailed
    /\ Len(rendered) = 2
    /\ Len(all_results) > 0
    /\ all_results[Len(all_results)].url = rendered[1]
    /\ all_results[Len(all_results)].status = "error"
    /\ all_results[Len(all_results)].error = <<"goto failed">>

ChartShotFailed == \E k \in 1..Len(trace) : trace[k] = Step("chart screenshot", FALSE)

\* C14: when the element screenshot of the selected chart fails, a full-page
\* screenshot is taken instead: the record has the _fullpage path, the failure
\* in error, status ok, and the label fields read from the element.
C14_ChartScreenshotFallback ==
    (pc = "append" /\ ChartShotFailed) =>
        /\ Called("fullpage screenshot")
        /\ IsFullPageVariant(result.image_path)
        /\ ~IsChartVariant(result.image_path)
        /\ result.error # << >> /\ result.error[1] = "svg screenshot error"
        /\ result.status = "ok"
        /\ result.has_svg
        /\ result.alt_text = extract_alt_from_svg(svgs[largest])
        /\ result.has_alt = (result.alt_text # Empty)

\* the fallback at work: both screenshots attempted, the second one taken
C14_FallbackTaken ==
    /\ pc = "append" /\ ChartShotFailed /\ FullPageTaken
    /\ IsFullPageVariant(result.image_path)
    /\ result.status = "ok"
    /\ result.has_alt

HtmlFailed == \E k \in 1..Len(trace) : trace[k] = Step("write html", FALSE)
ChartTaken == \E k \in 1..Len(trace) : trace[k] = Step("chart screenshot", TRUE)
AfterHtml == {"scan", "chartshot", "fullpage_nosvg", "fullpage_nobox",
              "fullpage_fallback", "close", "append"}

\* C15: when the HTML capture fails, the failure is the first entry of
\* error, html_path stays empty, status stays ok, and render_url goes on with
\* the svg scan, the label and the screenshot: unless one of those raises out
\* of render_url, the returned record carries the flags, the label and the
\* image of the page as after a successful write.
C15_HtmlFailureNonFatal ==
    HtmlFailed =>
        /\ pc \in AfterHtml
        /\ pc \in {"close", "append"} => Called("scan svgs")
        /\ ~Escaped =>
            /\ result.html_path = Empty
            /\ result.status = "ok"
            /\ result.error # << >> /\ result.error[1] = "html error"
        /\ (pc = "append" /\ ~Escaped) =>
            /\ result.has_svg = (Len(svgs) > 0)
            /\ result.alt_text =
                    (IF largest = 0 THEN Empty ELSE extract_alt_from_svg(svgs[largest]))
            /\ result.has_alt = (result.alt_text # Empty)
            /\ Called("chart screenshot") \/ Called("fullpage screenshot")
            /\ ChartTaken => IsChartVariant(result.image_path)
            /\ FullPageTaken => IsFullPageVariant(result.image_path)
            /\ (~ChartTaken /\ ~FullPageTaken) => result.image_path = Empty

\* a chart captured in full after the HTML write failed
C15_ChartAfterHtmlFailure ==
    /\ pc = "append" /\ HtmlFailed /\ ChartTaken
    /\ result.status = "ok"
    /\ result.html_path = Empty
    /\ result.has_alt
    /\ IsChartVariant(result.image_path)

\* C16: an svg element whose bounding-box query raises counts as an element
\* without a box: the scan goes on, the largest of the measurable elements
\* is selected and the attempt stays status=ok.
C16_ScanToleratesQueryFailure ==
    (ScanDone /\ ~NoneRaises) =>
        /\ trace[Len(trace)].ok
        /\ result.status = "ok"
        /\ result.has_svg
        /\ Measurable = {} => pc = "fullpage_nobox"
        /\ Measurable # {} =>
            /\ pc = "chartshot"
            /\ largest \in Measurable
            /\ \A j \in Measurable : Area(j) <= Area(largest)

\* the scan met a raising query before a measurable element
C16_RaisedBeforeMeasurable ==
    /\ ScanDone /\ Len(svgs) = 2
    /\ svgs[1].kind = "raise"
    /\ 2 \in Measurable
    /\ pc = "append"
    /\ result.status = "error"

StepRaises(el) == \E k \in 1..4 : Raises(Chain(el)[k])

\* C17: a step of the chain whose lookup raises counts as empty and the
\* later steps are still tried: the label is the trimmed value of the first
\* step that answers with a non-blank value, "" when there is none; the
\* extractor itself does not raise.
C17_StepsFailIndependently ==
    (pc = "chartshot" /\ StepRaises(svgs[largest])) =>
        LET chain == Chain(svgs[largest])
            answers == {k \in 1..4 : ~Raises(chain[k]) /\ ~Blank(chain[k])}
        IN  /\ trace[Len(trace)] = Step("scan svgs", TRUE)
            /\ answers = {} => result.alt_text = Empty
            /\ \A k \in answers :
                   (\A m \in answers : k <= m) =>
                       /\ IsTrimOf(result.alt_text, chain[k].text)
                       /\ result.alt_text # Empty
                       /\ result.has_alt

\* the first step raised, a later one had a label, and the label came out ""
C17_LabelLostAfterRaise ==
    /\ pc = "chartshot"
    /\ Raises(svgs[largest].aria)
    /\ svgs[largest].title.state = "absent"
    /\ svgs[largest].desc.state = "present" /\ ~Blank(svgs[largest].desc)
    /\ result.alt_text = Empty
    /\ ~result.has_alt

IsPrefix(p, q) == Len(p) <= Len(q) /\ SubSeq(q, 1, Len(p)) = p
LedgerAtStart == IF ledger0.exists THEN ledger0.recs ELSE << >>
\* the run got past the loading of the ledger
Loaded == rows # << >> /\ (ledger0.exists => ledger0.valid)
\* rendered follows the order of the rows
InInputOrder ==
    \E f \in [1..Len(rendered) -> RowIndices] :
        /\ \A j \in 1..Len(rendered) : RowUrl(f[j]) = rendered[j]
        /\ \A j, k \in 1..Len(rendered) : j < k => f[j] < f[k]

C18_LedgerGrowsAtEnd ==
    Loaded =>
        /\ IsPrefix(LedgerAtStart, all_results)
        /\ (disk.exists /\ disk.valid) => IsPrefix(LedgerAtStart, disk.recs)
        /\ Len(all_results) - Len(LedgerAtStart) \in {Len(rendered), Len(rendered) - 1}
        /\ \A j \in 1..(Len(all_results) - Len(LedgerAtStart)) :
               all_results[Len(LedgerAtStart) + j].url = rendered[j]
        /\ InInputOrder

C18_StepKeepsRecords ==
    (pc \notin Idle /\ pc' # "idle") =>
        /\ IsPrefix(all_results, all_results')
        /\ (disk'.exists /\ disk'.valid) => IsPrefix(all_results, disk'.recs)

\* C18: the ledger is append-only. The ledger loaded at the start is a
\* prefix of the ledger in memory at every point of the run and of every
\* complete file; the records added by the run follow it, one per rendered
\* url in the order of the input rows; and no step of the run changes or
\* moves a record that is already in the ledger.
C18_AppendOnlyLedger == [](C18_LedgerGrowsAtEnd) /\ [][C18_StepKeepsRecords]_vars

\* a run that loaded a ledger and wrote records after it
C18_AddedAfterLoaded ==
    /\ pc = "done"
    /\ Loaded
    /\ LedgerAtStart # << >>
    /\ rendered # << >>
    /\ Len(all_results) = Len(LedgerAtStart) + Len(rendered)
    /\ disk = File(all_results)

BlankIfError(r) ==
    r.status = "error" =>
        /\ r.image_path = Empty /\ r.html_path = Empty
        /\ ~r.has_svg /\ ~r.has_alt

\* C19: a record with status=error, in the ledger in memory, in the
\* results file or about to be appended, has empty image_path and html_path
\* and has_svg = has_alt = false, whatever was written to disk before the
\* failure.
C19_ErrorRecordsAreBlank ==
    /\ \A k \in 1..Len(all_results) : BlankIfError(all_results[k])
    /\ \A k \in 1..Len(Ledger) : BlankIfError(Ledger[k])
    /\ pc = "append" => BlankIfError(result)

\* an error record appended for a url whose HTML file had been written
C19_ErrorAfterHtmlWritten ==
    /\ pc = "append"
    /\ Called("write html") /\ ~HtmlFailed
    /\ Escaped
    /\ result.status = "error"
    /\ result.html_path = Empty

ChartVariantOf(r) == r.image_path = <<"images", slugify(r.url), "_chart.png">>
ConsistentFlags(r) ==
    /\ r.has_alt = (r.alt_text # Empty)
    /\ r.has_alt => r.has_svg
    /\ ChartVariantOf(r) => r.has_svg

\* C20: in every record of the ledger, in memory or in the results file,
\* and in the record about to be appended, has_alt is true exactly when
\* alt_text is not empty, has_alt implies has_svg, and a _chart image_path
\* implies has_svg.
C20_LabelFlagsConsistent ==
    /\ \A k \in 1..Len(all_results) : ConsistentFlags(all_results[k])
    /\ \A k \in 1..Len(Ledger) : ConsistentFlags(Ledger[k])
    /\ pc = "append" => ConsistentFlags(result)

\* a chart whose only label source is blank: captured, has_svg, no label
C20_BlankLabelChart ==
    /\ pc = "append"
    /\ largest # 0
    /\ svgs[largest].aria.state = "present" /\ svgs[largest].aria.text # Empty
    /\ Blank(svgs[largest].aria)
    /\ result.has_svg /\ ~result.has_alt
    /\ result.alt_text = Empty
    /\ ChartVariantOf(result)
====
